---- MODULE Spec2Model ----
(***************************************************************************)
(* RSA accumulator of the stateless-blockchain runtime.                    *)
(*                                                                         *)
(* accumulator/src/subroutines.rs : the integer subroutines (mul_mod,      *)
(*   mod_exp, extended_gcd, bezout, mod_inverse, shamir_trick,             *)
(*   miller_rabin, hash_to_prime, root_factor).                            *)
(* runtime/src/stateless.rs : the runtime module (storage State,           *)
(*   SpentCoins, NewCoins; calls addTransaction, mint; hook on_finalize).  *)
(*                                                                         *)
(* Integer widths.  The code computes in U256 (unsigned, every + - * that  *)
(* leaves the range panics) and i128 (signed; an operation that leaves the *)
(* range panics in a build with overflow checks and wraps in one without;  *)
(* i128::try_from(..).unwrap() always panics outside the range).  The      *)
(* model keeps both widths but scales them: an unsigned value has `ubits`  *)
(* bits, a signed one `ibits` bits.  The three build parameters are fixed  *)
(* by Init and never change.                                               *)
(***************************************************************************)
EXTENDS Integers, Sequences, FiniteSets, TLC

VARIABLES
    ubits,            \* width of the unsigned integer type (U256, scaled)
    ibits,            \* width of the signed coefficient type (i128, scaled)
    overflow_checks,  \* TRUE: signed overflow panics; FALSE: it wraps
    call,             \* the last subroutine call: [op, args, ret]
    State,            \* storage: the accumulator value
    SpentCoins,       \* storage: queue of (member, witness) pairs
    NewCoins,         \* storage: queue of new members
    Events,           \* events deposited by the last on_finalize
    pending_outputs,  \* new_elem of every accepted transaction of this round
    last_finalize,    \* what the last on_finalize saw and did
    htp_pc,           \* hash_to_prime, stepped: "idle", "loop", "returned", "panicked"
    htp_hash,         \* hash_to_prime: the local `hash`
    htp_result,       \* hash_to_prime: the local `result`
    rf_pc,            \* root_factor, stepped: "idle", "running", "returned", "panicked", "overflowed"
    rf_stack,         \* root_factor: the calls not yet made, the next one first
    rf_out            \* root_factor: the entries returned so far, in order

vars == <<ubits, ibits, overflow_checks, call, State, SpentCoins, NewCoins,
          Events, pending_outputs, last_finalize, htp_pc, htp_hash, htp_result,
          rf_pc, rf_stack, rf_out>>

build_vars == <<ubits, ibits, overflow_checks>>
runtime_vars == <<State, SpentCoins, NewCoins, Events, pending_outputs, last_finalize>>
htp_vars == <<htp_pc, htp_hash, htp_result>>
rf_vars == <<rf_pc, rf_stack, rf_out>>

(***************************************************************************)
(* Constants of the accumulator crate.                                     *)
(***************************************************************************)
\* super::MODULUS.  The unit tests of subroutines.rs fix it: 2^7 = 11,
\* 7^15 = 5 and 9 * 3 = 1 modulo MODULUS hold only for 13.
MODULUS == 13

\* The generator: the initial value of the storage item State.
GENERATOR == 2

(***************************************************************************)
(* Bounds of the model.                                                    *)
(***************************************************************************)
\* ubits and ibits of the reference build (U256 and i128, scaled; the signed
\* type has half the bits of the unsigned one, as in the code).
UBITS == 12
IBITS == 6

(***************************************************************************)
(* Fixed-width arithmetic.                                                 *)
(***************************************************************************)
\* The outcome "the call panicked" of a function that returns a U256.
PANIC == 0 - 1

\* The same for a function that returns an i128 (outside every signed range).
IPANIC == 2^30

UMAX == 2^ubits - 1
IMAX == 2^(ibits - 1) - 1
IMIN == 0 - 2^(ibits - 1)

\* U256 + U256, U256 * U256, U256 - U256: panic outside 0..UMAX.
UAdd(a, b) == IF a + b > UMAX THEN PANIC ELSE a + b
UMul(a, b) == IF a * b > UMAX THEN PANIC ELSE a * b
USub(a, b) == IF a < b THEN PANIC ELSE a - b

\* An i128 result v: kept when in range, else a panic or a wrap-around.
IWrap(v) == ((v - IMIN) % 2^ibits) + IMIN
IFit(v) ==
    IF v >= IMIN /\ v <= IMAX THEN v
    ELSE IF overflow_checks THEN IPANIC ELSE IWrap(v)
IMul(a, b) == IF a = IPANIC \/ b = IPANIC THEN IPANIC ELSE IFit(a * b)
ISub(a, b) == IF a = IPANIC \/ b = IPANIC THEN IPANIC ELSE IFit(a - b)
INeg(a) == IF a = IPANIC THEN IPANIC ELSE IFit(0 - a)

\* i128::try_from(q).unwrap() of a U256 q.
ITryFrom(q) == IF q > IMAX THEN IPANIC ELSE q

(***************************************************************************)
(* mul_mod, mod_exp                                                        *)
(*                                                                         *)
(* TLC evaluates a LET definition anew at every use, so a value that a     *)
(* loop carries is bound as the element of a singleton set instead:        *)
(*     CHOOSE out \in {e(v) : v \in {expr}} : TRUE                         *)
(* is LET v == expr IN e(v), with expr evaluated once.                     *)
(***************************************************************************)
RECURSIVE mul_mod_loop(_, _, _, _)
mul_mod_loop(result, a, b, modulus) ==
    IF b = 0 THEN result % modulus
    ELSE CHOOSE out \in
          { IF sum = PANIC \/ dbl = PANIC THEN PANIC
            ELSE mul_mod_loop(sum % modulus, dbl % modulus, half, modulus) :
              sum \in {IF b % 2 = 1 THEN UAdd(result, a) ELSE result},
              dbl \in {UMul(a, 2)},
              half \in {b \div 2} } : TRUE

mul_mod(a, b, modulus) ==
    IF a = PANIC \/ b = PANIC THEN PANIC
    ELSE CHOOSE out \in
          { mul_mod_loop(0, a0, b0, modulus) : a0 \in {a % modulus}, b0 \in {b} } : TRUE

\* One round of the loop of mod_exp, result and base already multiplied.
RECURSIVE mod_exp_loop(_, _, _, _)
mod_exp_loop(result, base, exp, modulus) ==
    IF exp = 0 THEN result
    ELSE CHOOSE out \in
          { IF r1 = PANIC THEN PANIC
            ELSE IF exp = 1 THEN r1
            ELSE CHOOSE out2 \in
                  { IF b1 = PANIC THEN PANIC
                    ELSE mod_exp_loop(r1, b1, half, modulus) :
                      b1 \in {mul_mod(base, base, modulus)},
                      half \in {exp \div 2} } : TRUE :
              r1 \in {IF exp % 2 = 1 THEN mul_mod(result, base, modulus)
                      ELSE result} } : TRUE

mod_exp(base, exp, modulus) ==
    IF base = PANIC \/ exp = PANIC THEN PANIC
    ELSE CHOOSE out \in
          { mod_exp_loop(1, b0, e0, modulus) :
              b0 \in {base % modulus}, e0 \in {exp} } : TRUE

(***************************************************************************)
(* extended_gcd, bezout, mod_inverse                                       *)
(***************************************************************************)
\* The loop of extended_gcd.  A panic returns <<PANIC, 0, 0>>.
RECURSIVE extended_gcd_loop(_, _, _, _, _, _)
extended_gcd_loop(r, old_r, s, old_s, t, old_t) ==
    IF r = 0 THEN <<old_r, old_s, old_t>>
    ELSE CHOOSE out \in
          { IF new_r = PANIC \/ new_s = IPANIC \/ new_t = IPANIC
            THEN <<PANIC, 0, 0>>
            ELSE extended_gcd_loop(new_r, r, new_s, s, new_t, t) :
              new_r \in {USub(old_r, UMul(old_r \div r, r))},
              new_s \in {ISub(old_s, IMul(ITryFrom(old_r \div r), s))},
              new_t \in {ISub(old_t, IMul(ITryFrom(old_r \div r), t))} } : TRUE

\* A faulty extended_gcd, to try the properties on: the coefficient pairs
\* start as (0, 1) and (1, 0) exchanged.
extended_gcd_exchanged(a, b) ==
    CHOOSE out \in
      { extended_gcd_loop(b0, a0, 1, 0, 0, 1) : a0 \in {a}, b0 \in {b} } : TRUE

extended_gcd(a, b) ==
    CHOOSE out \in
      { extended_gcd_loop(b0, a0, 0, 1, 1, 0) : a0 \in {a}, b0 \in {b} } : TRUE

\* Option<(i128, i128)>: <<"Some", x, y>>, <<"None", 0, 0>>; <<"Panic", 0, 0>>.
bezout(a, b) ==
    CHOOSE out \in
      { IF e[1] = PANIC THEN <<"Panic", 0, 0>>
        ELSE IF e[1] # 1 THEN <<"None", 0, 0>>
        ELSE <<"Some", e[2], e[3]>> : e \in {extended_gcd(a, b)} } : TRUE

\* A faulty mod_inverse, to try the properties on: a negative coefficient
\* is negated and not taken from MODULUS.
mod_inverse_negated(elem) ==
    CHOOSE out \in
      { IF e[1] = PANIC THEN PANIC
        ELSE IF e[2] < 0 THEN (0 - e[2]) % MODULUS
        ELSE e[2] % MODULUS : e \in {extended_gcd(elem, MODULUS)} } : TRUE

mod_inverse(elem) ==
    CHOOSE out \in
      { IF e[1] = PANIC THEN PANIC
        ELSE IF e[2] < 0
        THEN CHOOSE out2 \in
              { IF m = IPANIC \/ m < 0 THEN PANIC
                ELSE IF USub(MODULUS, m) = PANIC THEN PANIC
                ELSE USub(MODULUS, m) % MODULUS :
                  m \in {IMul(e[2], 0 - 1)} } : TRUE
        ELSE e[2] % MODULUS : e \in {extended_gcd(elem, MODULUS)} } : TRUE

(***************************************************************************)
(* shamir_trick                                                            *)
(***************************************************************************)
\* A faulty combination, to try the properties on: a negative coefficient
\* is negated and its root is not inverted.
shamir_combine_no_inverse(xth_root, yth_root, a, b) ==
    CHOOSE out \in
      { IF p = PANIC \/ q = PANIC THEN <<"Panic", 0>>
        ELSE IF UMul(p, q) = PANIC THEN <<"Panic", 0>>
        ELSE <<"Some", UMul(p, q) % MODULUS>> :
          p \in {mod_exp(xth_root, IF b < 0 THEN 0 - b ELSE b, MODULUS)},
          q \in {mod_exp(yth_root, IF a < 0 THEN 0 - a ELSE a, MODULUS)} } : TRUE

\* The Some(coefficients) arm of shamir_trick, (a, b) the coefficients.
\* Option<U256>: <<"Some", r>>, <<"None", 0>>; <<"Panic", 0>>.
shamir_combine(xth_root, yth_root, a, b) ==
    CHOOSE out \in
      { IF xr = PANIC \/ yr = PANIC \/ a1 = IPANIC \/ b1 = IPANIC
           \/ a1 < 0 \/ b1 < 0
        THEN <<"Panic", 0>>
        ELSE CHOOSE out2 \in
              { IF p = PANIC \/ q = PANIC THEN <<"Panic", 0>>
                ELSE IF UMul(p, q) = PANIC THEN <<"Panic", 0>>
                ELSE <<"Some", UMul(p, q) % MODULUS>> :
                  p \in {mod_exp(xr, b1, MODULUS)},
                  q \in {mod_exp(yr, a1, MODULUS)} } : TRUE :
          xr \in {IF b < 0 THEN mod_inverse(xth_root) ELSE xth_root},
          b1 \in {IF b < 0 THEN INeg(b) ELSE b},
          yr \in {IF a < 0 THEN mod_inverse(yth_root) ELSE yth_root},
          a1 \in {IF a < 0 THEN INeg(a) ELSE a} } : TRUE

shamir_trick(xth_root, yth_root, x, y) ==
    CHOOSE out \in
      { IF lhs = PANIC \/ rhs = PANIC THEN <<"Panic", 0>>
        ELSE IF lhs # rhs THEN <<"None", 0>>
        ELSE CHOOSE out2 \in
              { IF c[1] = "Panic" THEN <<"Panic", 0>>
                ELSE IF c[1] = "None" THEN <<"None", 0>>
                ELSE shamir_combine(xr0, yr0, c[2], c[3]) :
                  c \in {bezout(x, y)} } : TRUE :
          lhs \in {mod_exp(xth_root, x, MODULUS)},
          rhs \in {mod_exp(yth_root, y, MODULUS)},
          xr0 \in {xth_root}, yr0 \in {yth_root} } : TRUE

(***************************************************************************)
(* miller_rabin                                                            *)
(***************************************************************************)
\* A faulty base set, to try the properties on: the base 2 alone.
bases_two_only == <<2>>

bases == <<2, 3, 5, 7, 11, 13, 17, 19, 23, 29, 31, 37, 41>>

\* U256::trailing_zeros: the width itself for 0.
RECURSIVE trailing_zeros(_)
trailing_zeros(v) ==
    IF v = 0 THEN ubits
    ELSE IF v % 2 = 1 THEN 0
    ELSE 1 + trailing_zeros(v \div 2)

\* U256 >> r: zero when r is the width or more.
shr(v, r) == IF r >= ubits THEN 0 ELSE v \div (2^r)

\* for _ in 1..r { x = mod_exp(x, 2, n); if x == n-1 { continue 'outer } }
\* left: iterations still to run.  "hit", "miss" or "panic".
RECURSIVE miller_rabin_squares(_, _, _)
miller_rabin_squares(x, n, left) ==
    IF left <= 0 THEN "miss"
    ELSE CHOOSE out \in
          { IF x1 = PANIC THEN "panic"
            ELSE IF x1 = n - 1 THEN "hit"
            ELSE miller_rabin_squares(x1, n, left1) :
              x1 \in {mod_exp(x, 2, n)}, left1 \in {left - 1} } : TRUE

\* 'outer: for &a in bases.iter(), from the i-th base on.
RECURSIVE miller_rabin_bases(_, _, _, _)
miller_rabin_bases(n, r, d, i) ==
    IF i > Len(bases) THEN "true"
    ELSE IF USub(n, 2) = PANIC THEN "panic"
    ELSE IF USub(n, 2) < bases[i] THEN "true"
    ELSE CHOOSE out \in
          { IF x = PANIC THEN "panic"
            ELSE IF x = 1 \/ x = n - 1 THEN miller_rabin_bases(n, r, d, i1)
            ELSE CHOOSE out2 \in
                  { IF sq = "panic" THEN "panic"
                    ELSE IF sq = "hit" THEN miller_rabin_bases(n, r, d, i1)
                    ELSE "false" :
                      sq \in {miller_rabin_squares(x, n, r - 1)} } : TRUE :
              x \in {mod_exp(bases[i], d, n)}, i1 \in {i + 1} } : TRUE

\* bool, as "true" or "false"; "panic" when the call panicked.
miller_rabin(n) ==
    IF USub(n, 1) = PANIC THEN "panic"
    ELSE CHOOSE out \in
          { miller_rabin_bases(n0, r, shr(n0 - 1, r), 1) :
              n0 \in {n}, r \in {trailing_zeros(n - 1)} } : TRUE

(***************************************************************************)
(* root_factor                                                             *)
(***************************************************************************)
\* The outcome "the recursion never ends" (the stack is exhausted).
ABORT == 0 - 2

\* A Vec<U256> result that stands for a panic or an abort of the call.
Failed(v) == Len(v) = 1 /\ v[1] < 0

\* for i in lo..hi { g = mod_exp(g, elems[i], MODULUS) }, 1-based lo..hi.
RECURSIVE root_factor_fold(_, _, _, _)
root_factor_fold(g, elems, lo, hi) ==
    IF lo > hi THEN g
    ELSE CHOOSE out \in
          { root_factor_fold(g1, elems, lo1, hi) :
              g1 \in {mod_exp(g, elems[lo], MODULUS)}, lo1 \in {lo + 1} } : TRUE

\* A faulty root_factor, to try the properties on: each half is seeded with
\* its own product and not with the other half's.
RECURSIVE root_factor_unswapped(_, _)
root_factor_unswapped(g, elems) ==
    IF Len(elems) = 1 THEN <<g>>
    ELSE IF Len(elems) = 0 THEN <<ABORT>>
    ELSE CHOOSE out \in
          { IF g_left = PANIC \/ g_right = PANIC THEN <<PANIC>>
            ELSE root_factor_unswapped(g_left, lo_half)
                   \o root_factor_unswapped(g_right, hi_half) :
              g_left \in {root_factor_fold(g, elems, 1, Len(elems) \div 2)},
              g_right \in {root_factor_fold(g, elems, Len(elems) \div 2 + 1,
                                            Len(elems))},
              lo_half \in {SubSeq(elems, 1, Len(elems) \div 2)},
              hi_half \in {SubSeq(elems, Len(elems) \div 2 + 1, Len(elems))} }
          : TRUE

RECURSIVE root_factor(_, _)
root_factor(g, elems) ==
    IF Len(elems) = 1 THEN <<g>>
    ELSE IF Len(elems) = 0 THEN <<ABORT>>
    ELSE CHOOSE out \in
          { IF g_left = PANIC \/ g_right = PANIC THEN <<PANIC>>
            ELSE CHOOSE out2 \in
                  { IF Failed(left) THEN left
                    ELSE IF Failed(right) THEN right
                    ELSE left \o right :
                      left \in {root_factor(g_right, lo_half)},
                      right \in {root_factor(g_left, hi_half)} } : TRUE :
              g_left \in {root_factor_fold(g, elems, 1, Len(elems) \div 2)},
              g_right \in {root_factor_fold(g, elems, Len(elems) \div 2 + 1,
                                            Len(elems))},
              lo_half \in {SubSeq(elems, 1, Len(elems) \div 2)},
              hi_half \in {SubSeq(elems, Len(elems) \div 2 + 1, Len(elems))} }
          : TRUE

(***************************************************************************)
(* The witness service and the accumulator engine (accumulator/src/lib.rs  *)
(* and witnesses.rs, which the runtime and its tests call).                *)
(***************************************************************************)
\* verify_mem_wit(state, witness, elem): witness^elem == state (mod N).
verify_mem_wit(state, witness, elem) ==
    mod_exp(witness, elem, MODULUS) = state

\* create_all_mem_wit(state, new_elems): root_factor of the pre-batch state.
create_all_mem_wit(state, new_elems) == root_factor(state, new_elems)

\* The product of a list of U256 (PANIC once it leaves the range).
RECURSIVE product(_)
product(elems) ==
    IF Len(elems) = 0 THEN 1
    ELSE CHOOSE out \in
          { IF rest = PANIC THEN PANIC ELSE UMul(Head(elems), rest) :
              rest \in {product(Tail(elems))} } : TRUE

\* batch_add(state, elems): state^(product of elems), folded over the list;
\* agg is the product of the batch.  [ok, err, state, agg].
batch_add(state, elems) ==
    CHOOSE out \in
      { IF new_state = PANIC \/ x_agg = PANIC
        THEN [ok |-> FALSE, err |-> "Overflow", state |-> state, agg |-> 0]
        ELSE [ok |-> TRUE, err |-> "", state |-> new_state, agg |-> x_agg] :
          new_state \in {root_factor_fold(state, elems, 1, Len(elems))},
          x_agg \in {product(elems)} } : TRUE

\* The pairwise combination of batch_delete from the i-th deletion on:
\* new_state is the witness of the product x_agg of the members so far.
RECURSIVE batch_delete_fold(_, _, _, _)
batch_delete_fold(new_state, x_agg, deletions, i) ==
    IF i > Len(deletions)
    THEN [ok |-> TRUE, err |-> "", state |-> new_state, agg |-> x_agg]
    ELSE CHOOSE out \in
          { IF root[1] = "None"
            THEN [ok |-> FALSE, err |-> "NotCoprime", state |-> 0, agg |-> 0]
            ELSE IF root[1] = "Panic" \/ next_agg = PANIC
            THEN [ok |-> FALSE, err |-> "Overflow", state |-> 0, agg |-> 0]
            ELSE batch_delete_fold(root[2], next_agg, deletions, i1) :
              root \in {shamir_trick(new_state, deletions[i][2], x_agg,
                                     deletions[i][1])},
              next_agg \in {UMul(x_agg, deletions[i][1])},
              i1 \in {i + 1} } : TRUE

\* batch_delete(state, deletions): every witness is verified against state
\* and one failure rejects the batch; then the witnesses are combined.
batch_delete(state, deletions) ==
    IF Len(deletions) = 0
    THEN [ok |-> TRUE, err |-> "", state |-> state, agg |-> 1]
    ELSE IF \E i \in 1..Len(deletions) :
                ~verify_mem_wit(state, deletions[i][2], deletions[i][1])
    THEN [ok |-> FALSE, err |-> "InvalidWitness", state |-> 0, agg |-> 0]
    ELSE batch_delete_fold(deletions[1][2], deletions[1][1], deletions, 2)

(***************************************************************************)
(* Reference arithmetic, for stating the properties.                       *)
(***************************************************************************)
RECURSIVE RefPowMod(_, _, _)
RefPowMod(b, e, m) == IF e = 0 THEN 1 % m ELSE (b * RefPowMod(b, e - 1, m)) % m

\* g^(product of elems) mod m, as ((g^e1)^e2)... of the reference power.
RECURSIVE RefPowModList(_, _, _)
RefPowModList(g, elems, m) ==
    IF Len(elems) = 0 THEN g % m
    ELSE RefPowModList(RefPowMod(g, Head(elems), m), Tail(elems), m)

RECURSIVE RefGcd(_, _)
RefGcd(a, b) == IF b = 0 THEN a ELSE RefGcd(b, a % b)

IsPrime(n) == n >= 2 /\ \A k \in 2..(n - 1) : k * k > n \/ n % k # 0

RECURSIVE RefProduct(_)
RefProduct(elems) ==
    IF Len(elems) = 0 THEN 1 ELSE Head(elems) * RefProduct(Tail(elems))

\* elems without its i-th entry.
Without(elems, i) == SubSeq(elems, 1, i - 1) \o SubSeq(elems, i + 1, Len(elems))

Range(f) == {f[i] : i \in DOMAIN f}

\* The sequences of length 1..n over S, and those without a repeated entry.
SeqsUpTo(S, n) == UNION {[1..k -> S] : k \in 1..n}
DistinctSeqsUpTo(S, n) == {q \in SeqsUpTo(S, n) : Cardinality(Range(q)) = Len(q)}

(***************************************************************************)
(* Inputs of the subroutine calls.                                         *)
(***************************************************************************)
\* super::LAMBDA (a reserved word here): members are primes below it.
Lambda == 12

\* The longest list handed to root_factor, batch_add and batch_delete.
MaxBatch == 3

\* The largest entry of a list handed to root_factor directly.
MaxElem == 5

\* The largest n handed to miller_rabin: past 2047, the least composite
\* that passes the test to base 2 alone.
MaxN == 2048

\* The small exponents handed to shamir_trick.
MaxExp == 8

\* The largest modulus handed to mul_mod and mod_exp directly.
MaxModulus == 16

Group == 0..(MODULUS - 1)

\* The values the accumulator takes: the powers of the generator.
AccumulatorStates == {RefPowMod(GENERATOR, k, MODULUS) : k \in 0..(MODULUS - 2)}

\* Moduli of mul_mod and mod_exp: at most half the unsigned range.
Moduli == {m \in 2..MaxModulus : m <= 2^(ubits - 1)}
Members == {n \in 2..(Lambda - 1) : IsPrime(n)}

\* Arguments of extended_gcd and bezout: all that fit the signed type, and
\* a few that do not.
GcdArgs == 0..(IMAX + 9)

\* Exponents of shamir_trick: small ones, and those around the signed limit.
ShamirExps == (0..MaxExp) \cup ((IMAX - 1)..(IMAX + 2))

(***************************************************************************)
(* The subroutines, called one at a time (the unit tests of subroutines.rs *)
(* and test_add, test_del of stateless.rs).                                *)
(***************************************************************************)
\* last_finalize when the last operation was not on_finalize.
NoFinalize == [ran |-> FALSE, ok |-> FALSE, state |-> 0, spent |-> <<>>,
               outputs |-> <<>>]

NoCall == [op |-> "none", args |-> <<>>, ret |-> 0]

Quiet ==
    /\ State = GENERATOR
    /\ SpentCoins = <<>>
    /\ NewCoins = <<>>
    /\ Events = <<>>
    /\ pending_outputs = <<>>
    /\ last_finalize = NoFinalize
    /\ htp_pc = "idle"
    /\ htp_hash = 0
    /\ htp_result = 0
    /\ rf_pc = "idle"
    /\ rf_stack = <<>>
    /\ rf_out = <<>>

ReferenceBuild ==
    /\ ubits = UBITS
    /\ ibits = IBITS
    /\ overflow_checks \in BOOLEAN

InitFn ==
    /\ ReferenceBuild
    /\ call = NoCall
    /\ Quiet

\* One call per run: made from the state in which none was made yet.
Returns(op, args, ret) ==
    /\ call' = [op |-> op, args |-> args, ret |-> ret]
    /\ UNCHANGED <<build_vars, runtime_vars, htp_vars, rf_vars>>

CallMulMod ==
    /\ call = NoCall
    /\ \E modulus \in Moduli : \E a, b \in 0..(modulus - 1) :
           Returns("mul_mod", <<a, b, modulus>>, mul_mod(a, b, modulus))

CallModExp ==
    /\ call = NoCall
    /\ \E modulus \in Moduli : \E base, exp \in 0..(modulus - 1) :
           Returns("mod_exp", <<base, exp, modulus>>, mod_exp(base, exp, modulus))

CallExtendedGcd ==
    /\ call = NoCall
    /\ \E a, b \in GcdArgs :
           Returns("extended_gcd", <<a, b>>, extended_gcd(a, b))

CallBezout ==
    /\ call = NoCall
    /\ \E a, b \in GcdArgs :
           Returns("bezout", <<a, b>>, bezout(a, b))

CallModInverse ==
    /\ call = NoCall
    /\ \E elem \in Group :
           Returns("mod_inverse", <<elem>>, mod_inverse(elem))

CallShamirTrick ==
    /\ call = NoCall
    /\ \E xth_root, yth_root \in Group : \E x, y \in ShamirExps :
           Returns("shamir_trick", <<xth_root, yth_root, x, y>>,
                   shamir_trick(xth_root, yth_root, x, y))

CallMillerRabin ==
    /\ call = NoCall
    /\ \E n \in 0..MaxN :
           Returns("miller_rabin", <<n>>, miller_rabin(n))

CallRootFactor ==
    /\ call = NoCall
    /\ \E g \in Group : \E elems \in SeqsUpTo(0..MaxElem, MaxBatch) :
           Returns("root_factor", <<g, elems>>, root_factor(g, elems))

\* test_del: the witnesses of a batch against the state before it, the
\* batch added, and then deleted with those witnesses.
CallRoundTrip ==
    /\ call = NoCall
    /\ \E s0 \in AccumulatorStates : \E elems \in DistinctSeqsUpTo(Members, MaxBatch) :
           LET witnesses == create_all_mem_wit(s0, elems)
               added == batch_add(s0, elems)
               deletions == [i \in 1..Len(elems) |-> <<elems[i], witnesses[i]>>]
           IN  Returns("round_trip", <<s0, elems>>,
                       [witnesses |-> witnesses,
                        added |-> added,
                        deleted |-> batch_delete(added.state, deletions)])

NextFn ==
    \/ CallMulMod
    \/ CallModExp
    \/ CallExtendedGcd
    \/ CallBezout
    \/ CallModInverse
    \/ CallShamirTrick
    \/ CallMillerRabin
    \/ CallRootFactor
    \/ CallRoundTrip

SpecFn == InitFn /\ [][NextFn]_vars

(***************************************************************************)
(* hash_to_prime                                                           *)
(***************************************************************************)
\* The bits of a digest of blake2_256 (256, scaled).
DigestBits == 5

Digests == 0..(2^DigestBits - 1)

\* The multiplier and the increment of the stand-in for blake2_256.
HashMul == 11
HashInc == 28

RECURSIVE WeightedSum(_, _)
WeightedSum(data, i) ==
    IF i > Len(data) THEN 0
    ELSE (2 * i - 1) * (data[i] + 1) + WeightedSum(data, i + 1)

\* runtime_io::blake2_256 is not part of the repository.  It is stood for
\* by a fixed function from byte strings to digests, under which the UTXOs
\* of the model hash to different primes.
blake2_256(data) ==
    (HashMul * WeightedSum(data, 1) + HashInc * Len(data)) % (2^DigestBits)

\* The loop of hash_to_prime on the digest `hash`.  A digest is a byte
\* string to hash again.  left: the digests not yet seen; once none is
\* left the loop has come back to a digest it has tested and never ends.
RECURSIVE hash_to_prime_loop(_, _)
hash_to_prime_loop(hash, left) ==
    CHOOSE out \in
      { IF test = "panic" THEN PANIC
        ELSE IF test = "true" THEN hash % Lambda
        ELSE IF left = 0 THEN ABORT
        ELSE hash_to_prime_loop(next, left - 1) :
          test \in {miller_rabin(hash % Lambda)},
          next \in {blake2_256(<<hash>>)} } : TRUE

\* hash_to_prime(elem): a prime below LAMBDA; PANIC when miller_rabin
\* panics; ABORT when the loop never ends.
hash_to_prime(elem) ==
    hash_to_prime_loop(blake2_256(elem), Cardinality(Digests))

(***************************************************************************)
(* hash_to_prime, one test of the loop at a time, under every sequence of  *)
(* digests that blake2_256 can return.                                     *)
(***************************************************************************)
\* The rehashes counted (the count stays there once it is reached).
MaxRehash == 3

\* The inputs: the byte strings of one or two bytes below MaxByte + 1.
MaxByte == 1

ByteStrings == SeqsUpTo(0..MaxByte, 2)

InitHash ==
    /\ ReferenceBuild
    /\ call = NoCall
    /\ Quiet

\* let mut hash = blake2_256(elem); let mut result = hash % LAMBDA;
HashToPrimeStart ==
    /\ htp_pc = "idle"
    /\ \E elem \in ByteStrings : \E digest \in Digests :
        /\ call' = [op |-> "hash_to_prime", args |-> <<elem>>, ret |-> 0]
        /\ htp_hash' = digest
        /\ htp_result' = digest % Lambda
    /\ htp_pc' = "loop"
    /\ UNCHANGED <<build_vars, runtime_vars, rf_vars>>

\* while !miller_rabin(result) { hash = blake2_256(&hash); result = ... }
\* followed by return result.  call.ret counts the rehashes.
HashToPrimeTest ==
    /\ htp_pc = "loop"
    /\ \/ /\ miller_rabin(htp_result) = "true"
          /\ htp_pc' = "returned"
          /\ UNCHANGED <<call, htp_hash, htp_result>>
       \/ /\ miller_rabin(htp_result) = "panic"
          /\ htp_pc' = "panicked"
          /\ UNCHANGED <<call, htp_hash, htp_result>>
       \/ /\ miller_rabin(htp_result) = "false"
          /\ \E digest \in Digests :
              /\ htp_hash' = digest
              /\ htp_result' = digest % Lambda
          /\ call' = [call EXCEPT !.ret =
                        IF @ < MaxRehash THEN @ + 1 ELSE MaxRehash]
          /\ htp_pc' = "loop"
    /\ UNCHANGED <<build_vars, runtime_vars, rf_vars>>

NextHash ==
    \/ HashToPrimeStart
    \/ HashToPrimeTest

SpecHash == InitHash /\ [][NextHash]_vars

\* The loop is scheduled as long as it has a test to make.
SpecHashFair == SpecHash /\ WF_vars(HashToPrimeTest)

\* C6: hash_to_prime ends after at most a fixed number of rehashes, with a
\* prime below LAMBDA or with PrimeSearchExhausted, whatever the digests:
\* a call that is in its loop leaves it.
HashToPrimeEnds == (htp_pc = "loop") ~> (htp_pc # "loop")

(***************************************************************************)
(* The arithmetic under every width (the overflow notes on mod_exp and     *)
(* mul_mod): the modulus is at most half the unsigned range and every      *)
(* operand is below the modulus.                                           *)
(***************************************************************************)
\* The unsigned widths tried, least and greatest.
MinBits == 2
MaxBits == 6

InitWidth ==
    /\ ubits \in MinBits..MaxBits
    /\ ibits = IBITS
    /\ overflow_checks \in BOOLEAN
    /\ call = NoCall
    /\ Quiet

CallShamirTrickBelowModulus ==
    /\ call = NoCall
    /\ MODULUS <= 2^(ubits - 1)
    /\ \E xth_root, yth_root, x, y \in Group :
        Returns("shamir_trick", <<xth_root, yth_root, x, y>>,
                shamir_trick(xth_root, yth_root, x, y))

NextWidth ==
    \/ CallMulMod
    \/ CallModExp
    \/ CallShamirTrickBelowModulus

SpecWidth == InitWidth /\ [][NextWidth]_vars

(***************************************************************************)
(* Properties of the subroutines.                                          *)
(***************************************************************************)
Arg(i) == call.args[i]

\* The members of a round trip and the witnesses made for them.
RoundTripFits(elems) ==
    /\ \A i \in 1..Len(elems) : elems[i] <= IMAX
    /\ RefProduct(SubSeq(elems, 1, Len(elems) - 1)) <= IMAX

ShamirResultRight(xr, yr, x, y, ret) ==
    IF RefPowMod(xr, x, MODULUS) # RefPowMod(yr, y, MODULUS) \/ RefGcd(x, y) # 1
    THEN ret = <<"None", 0>>
    ELSE /\ ret[1] = "Some"
         /\ RefPowMod(RefPowMod(ret[2], x, MODULUS), y, MODULUS)
              = RefPowMod(xr, x, MODULUS)

\* C4 as stated: for all group elements and all exponents x, y,
\* shamir_trick returns None when the roots disagree or gcd(x, y) # 1, and
\* else Some(r) with r^(x*y) = xth_root^x.
ShamirTrickRight ==
    call.op = "shamir_trick" =>
        ShamirResultRight(Arg(1), Arg(2), Arg(3), Arg(4), call.ret)

\* C4, amended: the same, for exponents x, y that fit the signed
\* coefficient type.
ShamirTrickRightWithinWidth ==
    call.op = "shamir_trick" /\ Arg(3) <= IMAX /\ Arg(4) <= IMAX =>
        ShamirResultRight(Arg(1), Arg(2), Arg(3), Arg(4), call.ret)

\* test_shamir_trick: bezout(7, 5) = (-2, 3), so yth_root is inverted.
ShamirTrickWitness ==
    /\ call.op = "shamir_trick"
    /\ call.args = <<11, 6, 7, 5>>
    /\ bezout(7, 5)[2] < 0
    /\ call.ret = <<"Some", 7>>

\* C7: for n >= 2 below the determinism bound of the bases (and so within
\* half the unsigned range), miller_rabin(n) is true exactly for the primes.
MillerRabinDecidesPrimes ==
    call.op = "miller_rabin" /\ Arg(1) >= 2 /\ Arg(1) <= 2^(ubits - 1) =>
        call.ret = IF IsPrime(Arg(1)) THEN "true" ELSE "false"

\* n = 7: the bases 2, 3 and 5 are tried, 7 and the rest are out of [2, n-2].
MillerRabinWitness ==
    /\ call.op = "miller_rabin"
    /\ call.args = <<7>>
    /\ call.ret = "true"

\* The exact coefficients of the extended Euclidean algorithm on old_r, r
\* and the greatest quotient it divides by: <<gcd, x, y, quotient>>.
RECURSIVE RefEuclid(_, _, _, _, _, _, _)
RefEuclid(r, old_r, s, old_s, t, old_t, qmax) ==
    IF r = 0 THEN <<old_r, old_s, old_t, qmax>>
    ELSE CHOOSE out \in
          { RefEuclid(old_r - q * r, r, old_s - q * s, s, old_t - q * t, t,
                      IF q > qmax THEN q ELSE qmax) : q \in {old_r \div r} } : TRUE

Abs(v) == IF v < 0 THEN 0 - v ELSE v

\* The premise of C8 as stated: the coefficients and the quotients fit.
CoefficientsFit(a, b) ==
    LET e == RefEuclid(b, a, 0, 1, 1, 0, 0)
    IN  /\ e[2] >= IMIN /\ e[2] <= IMAX
        /\ e[3] >= IMIN /\ e[3] <= IMAX
        /\ e[4] <= IMAX

\* The premise of C8, amended: a / gcd and b / gcd fit.
ReducedArgsFit(a, b) ==
    \/ RefGcd(a, b) = 0
    \/ /\ a \div RefGcd(a, b) <= IMAX
       /\ b \div RefGcd(a, b) <= IMAX

GcdResultRight ==
    IF call.op = "extended_gcd"
    THEN /\ call.ret[1] = RefGcd(Arg(1), Arg(2))
         /\ Arg(1) * call.ret[2] + Arg(2) * call.ret[3] = call.ret[1]
    ELSE IF RefGcd(Arg(1), Arg(2)) = 1
         THEN /\ call.ret[1] = "Some"
              /\ Arg(1) * call.ret[2] + Arg(2) * call.ret[3] = 1
         ELSE call.ret = <<"None", 0, 0>>

\* C8 as stated: for all a, b whose Bezout coefficients and quotients fit
\* the signed type, extended_gcd returns (g, x, y) with g = gcd(a, b) and
\* a*x + b*y = g, and bezout returns Some((x, y)) with a*x + b*y = 1 exactly
\* when gcd(a, b) = 1, and None otherwise.
ExtendedGcdRight ==
    call.op \in {"extended_gcd", "bezout"} /\ CoefficientsFit(Arg(1), Arg(2))
        => GcdResultRight

\* C8, amended: the same, for all a, b with a / gcd(a, b) and b / gcd(a, b)
\* within the signed type (these are the last coefficients the loop
\* computes, which it does not return).
ExtendedGcdRightWithinWidth ==
    call.op \in {"extended_gcd", "bezout"} /\ ReducedArgsFit(Arg(1), Arg(2))
        => GcdResultRight

\* test_extended_gcd: 13 * 4 + 17 * (-3) = 1.
ExtendedGcdWitness ==
    /\ call.op = "extended_gcd"
    /\ call.args = <<13, 17>>
    /\ ReducedArgsFit(13, 17)
    /\ call.ret = <<1, 4, 0 - 3>>

\* C9: with the modulus at most half the unsigned range and the operands
\* below the modulus, no unsigned intermediate of mul_mod, mod_exp and
\* shamir_trick leaves the range: each returns the exact result.
NoUnsignedOverflow ==
    /\ call.op = "mul_mod" => call.ret = (Arg(1) * Arg(2)) % Arg(3)
    /\ call.op = "mod_exp" => call.ret = RefPowMod(Arg(1), Arg(2), Arg(3))
    /\ call.op = "shamir_trick" =>
        ShamirResultRight(Arg(1), Arg(2), Arg(3), Arg(4), call.ret)

\* The part of C9 that holds: mul_mod and mod_exp.
NoUnsignedOverflowInMulModExp ==
    /\ call.op = "mul_mod" => call.ret = (Arg(1) * Arg(2)) % Arg(3)
    /\ call.op = "mod_exp" => call.ret = RefPowMod(Arg(1), Arg(2), Arg(3))

(***************************************************************************)
(* The runtime module: addTransaction, mint, on_finalize.                  *)
(***************************************************************************)
\* The cap on the pending transactions (100, scaled).
QueueCap == 2

\* The owners and the ids of the UTXOs.
MaxPubKey == 1
MaxId == 0

UTXOs == [pub_key : 0..MaxPubKey, id : 0..MaxId]

\* Encode of a UTXO: the bytes of pub_key, then those of id (one byte each).
encode(utxo) == <<utxo.pub_key, utxo.id>>

\* A byte has ByteBits bits (8, scaled); a witness of more than WitnessCap
\* bytes (256, scaled) does not fit the integer type.
ByteBits == 3
WitnessCap == 1

Bytes == 0..(2^ByteBits - 1)

RECURSIVE from_little_endian_sum(_, _)
from_little_endian_sum(bytes, i) ==
    IF i > Len(bytes) THEN 0
    ELSE bytes[i] * (2^ByteBits)^(i - 1) + from_little_endian_sum(bytes, i + 1)

\* U2048::from_little_endian: panics on a slice longer than the type.
from_little_endian(bytes) ==
    IF Len(bytes) > WitnessCap THEN PANIC ELSE from_little_endian_sum(bytes, 1)

\* The witnesses submitted: every one of WitnessCap bytes, and one too long.
WitnessInputs ==
    [1..WitnessCap -> Bytes] \cup {[i \in 1..(WitnessCap + 1) |-> 0]}

Transactions == [input : UTXOs, output : UTXOs, witness : WitnessInputs]

\* The elements minted (u64, bounded).
MaxMint == 3

Init ==
    /\ ReferenceBuild
    /\ call = NoCall
    /\ Quiet

\* A faulty addTransaction, to try the properties on: the queue is found
\* full one entry late (<= for <) and the witness is not verified.
addTransaction_late_cap(signed, transaction) ==
    IF ~signed
    THEN [ret |-> "bad origin", spent_elem |-> 0, witness |-> 0, new_elem |-> 0]
    ELSE IF ~(Len(SpentCoins) <= QueueCap)
    THEN [ret |-> "Transaction queue full. Please try again next block.",
          spent_elem |-> 0, witness |-> 0, new_elem |-> 0]
    ELSE IF ~(transaction.input.pub_key # transaction.output.pub_key)
    THEN [ret |-> "Cannot send coin to yourself.",
          spent_elem |-> 0, witness |-> 0, new_elem |-> 0]
    ELSE CHOOSE out \in
          { IF spent_elem < 0 \/ witness < 0 \/ new_elem < 0
            THEN [ret |-> "Panic", spent_elem |-> 0, witness |-> 0, new_elem |-> 0]
            ELSE [ret |-> "Ok", spent_elem |-> spent_elem, witness |-> witness,
                  new_elem |-> new_elem] :
              spent_elem \in {hash_to_prime(encode(transaction.input))},
              witness \in {from_little_endian(transaction.witness)},
              new_elem \in {hash_to_prime(encode(transaction.output))} } : TRUE

\* The body of addTransaction on the stored State and SpentCoins:
\* [ret, spent_elem, witness, new_elem]; ret is "Ok", the message of the
\* ensure! that failed, "Panic", or "Diverges" when a hash_to_prime never
\* returns.
addTransaction(signed, transaction) ==
    IF ~signed THEN [ret |-> "bad origin", spent_elem |-> 0, witness |-> 0, new_elem |-> 0]
    ELSE IF ~(Len(SpentCoins) < QueueCap)
    THEN [ret |-> "Transaction queue full. Please try again next block.",
          spent_elem |-> 0, witness |-> 0, new_elem |-> 0]
    ELSE IF ~(transaction.input.pub_key # transaction.output.pub_key)
    THEN [ret |-> "Cannot send coin to yourself.",
          spent_elem |-> 0, witness |-> 0, new_elem |-> 0]
    ELSE CHOOSE out \in
          { IF spent_elem = ABORT
            THEN [ret |-> "Diverges", spent_elem |-> 0, witness |-> 0, new_elem |-> 0]
            ELSE IF spent_elem = PANIC \/ witness = PANIC
            THEN [ret |-> "Panic", spent_elem |-> 0, witness |-> 0, new_elem |-> 0]
            ELSE IF ~verify_mem_wit(State, witness, spent_elem)
            THEN [ret |-> "Witness is invalid", spent_elem |-> 0, witness |-> 0, new_elem |-> 0]
            ELSE IF new_elem = ABORT
            THEN [ret |-> "Diverges", spent_elem |-> 0, witness |-> 0, new_elem |-> 0]
            ELSE IF new_elem = PANIC
            THEN [ret |-> "Panic", spent_elem |-> 0, witness |-> 0, new_elem |-> 0]
            ELSE [ret |-> "Ok", spent_elem |-> spent_elem, witness |-> witness,
                  new_elem |-> new_elem] :
              spent_elem \in {hash_to_prime(encode(transaction.input))},
              witness \in {from_little_endian(transaction.witness)},
              new_elem \in {hash_to_prime(encode(transaction.output))} } : TRUE

\* addTransaction(origin, transaction).  Only SpentCoins is written, and
\* only when every ensure! passed; new_elem is computed and dropped (it is
\* kept in pending_outputs, which the code does not have).
AddTransaction ==
    \E signed \in BOOLEAN : \E transaction \in Transactions :
      \E out \in {addTransaction(signed, transaction)} :
        /\ out.ret # "Diverges"
        /\ call' = [op |-> "addTransaction", args |-> <<>>, ret |-> out.ret]
        /\ IF out.ret = "Ok"
           THEN /\ SpentCoins' = Append(SpentCoins, <<out.spent_elem, out.witness>>)
                /\ pending_outputs' = Append(pending_outputs, out.new_elem)
           ELSE UNCHANGED <<SpentCoins, pending_outputs>>
        /\ last_finalize' = NoFinalize
        /\ UNCHANGED <<build_vars, State, NewCoins, Events, htp_vars, rf_vars>>

\* mint(origin, elem): State is replaced at once.
Mint ==
    \E signed \in BOOLEAN : \E elem \in 0..MaxMint :
      \E state \in {IF signed THEN mod_exp(State, elem, MODULUS) ELSE State} :
        /\ call' = [op |-> "mint", args |-> <<>>,
                    ret |-> IF ~signed THEN "bad origin"
                            ELSE IF state = PANIC THEN "Panic" ELSE "Ok"]
        /\ State' = IF state = PANIC THEN State ELSE state
        /\ last_finalize' = NoFinalize
        /\ UNCHANGED <<build_vars, SpentCoins, NewCoins, Events,
                       pending_outputs, htp_vars, rf_vars>>

\* on_finalize().  A batch_delete or batch_add that fails ends the hook in
\* a panic, which leaves the storage as it was.
OnFinalize ==
    /\ IF Len(SpentCoins) > 0
       THEN \E del \in {batch_delete(State, SpentCoins)} :
            \E add \in {IF del.ok THEN batch_add(del.state, NewCoins) ELSE del} :
              IF del.ok /\ add.ok
              THEN /\ Events' = << <<"Deletion", del.state, del.agg>>,
                                   <<"Addition", add.state, add.agg>> >>
                   /\ State' = add.state
                   /\ SpentCoins' = <<>>
                   /\ NewCoins' = <<>>
                   /\ pending_outputs' = <<>>
                   /\ call' = [op |-> "on_finalize", args |-> <<>>, ret |-> "Ok"]
                   /\ last_finalize' = [ran |-> TRUE, ok |-> TRUE, state |-> State,
                                        spent |-> SpentCoins,
                                        outputs |-> pending_outputs]
              ELSE /\ call' = [op |-> "on_finalize", args |-> <<>>, ret |-> "Panic"]
                   /\ last_finalize' = [ran |-> TRUE, ok |-> FALSE, state |-> State,
                                        spent |-> SpentCoins,
                                        outputs |-> pending_outputs]
                   /\ UNCHANGED <<State, SpentCoins, NewCoins, Events,
                                  pending_outputs>>
       ELSE /\ SpentCoins' = <<>>
            /\ NewCoins' = <<>>
            /\ pending_outputs' = <<>>
            /\ call' = [op |-> "on_finalize", args |-> <<>>, ret |-> "Ok"]
            /\ last_finalize' = [ran |-> TRUE, ok |-> TRUE, state |-> State,
                                 spent |-> SpentCoins, outputs |-> pending_outputs]
            /\ UNCHANGED <<State, Events>>
    /\ UNCHANGED <<build_vars, htp_vars, rf_vars>>

Next ==
    \/ AddTransaction
    \/ Mint
    \/ OnFinalize

Spec == Init /\ [][Next]_vars

(***************************************************************************)
(* Properties of the runtime module.                                       *)
(***************************************************************************)
SpentMembers(spent) == [i \in 1..Len(spent) |-> spent[i][1]]

\* C2: when on_finalize ran on a State that accumulated exactly the inputs
\* of the accepted transactions, one transaction per input, the stored
\* State is GENERATOR^(product of the outputs' primes) mod MODULUS.
BlockFinalizationResult ==
    (/\ last_finalize.ran
     /\ last_finalize.ok
     /\ Cardinality(Range(SpentMembers(last_finalize.spent)))
          = Len(last_finalize.spent)
     /\ last_finalize.state
          = RefPowModList(GENERATOR, SpentMembers(last_finalize.spent), MODULUS))
    => State = RefPowModList(GENERATOR, last_finalize.outputs, MODULUS)

\* C5: SpentCoins holds no member more than once.
NoDuplicateSpent ==
    \A i, j \in 1..Len(SpentCoins) :
        i # j => SpentCoins[i][1] # SpentCoins[j][1]

\* C10: every pair of SpentCoins verifies against the stored State.
QueuedWitnessesValid ==
    \A i \in 1..Len(SpentCoins) :
        RefPowMod(SpentCoins[i][2] % MODULUS, SpentCoins[i][1], MODULUS)
          = State

(***************************************************************************)
(* root_factor, one call of the recursion at a time.                       *)
(*                                                                         *)
(* rf_stack holds the calls that are still to be made, as the pairs        *)
(* [g, elems, caller]: the arguments, and the length of the list of the    *)
(* call that makes it (NoCaller for the outermost call).  The call of the  *)
(* left half is made before that of the right half, so rf_out fills in the *)
(* order of left.append(&mut right).  Every call still to be made is       *)
(* waited for by a call in progress, so Len(rf_stack) is the depth of the  *)
(* recursion; the machine's stack holds MaxDepth calls.                    *)
(***************************************************************************)
\* The calls the stack of the machine holds (scaled).
MaxDepth == 6

NoCaller == 0 - 1

\* The lists root_factor is called on: of 0 to MaxBatch elements.
RootInputs == {<<>>} \cup SeqsUpTo(0..MaxElem, MaxBatch)

InitRoot ==
    /\ ReferenceBuild
    /\ call = NoCall
    /\ Quiet

\* root_factor(g, elems) is called.
RootFactorStart ==
    /\ rf_pc = "idle"
    /\ \E g \in Group : \E elems \in RootInputs :
        /\ call' = [op |-> "root_factor", args |-> <<g, elems>>, ret |-> 0]
        /\ rf_stack' = <<[g |-> g, elems |-> elems, caller |-> NoCaller]>>
    /\ rf_pc' = "running"
    /\ rf_out' = <<>>
    /\ UNCHANGED <<build_vars, runtime_vars, htp_vars>>

\* The body of the call on top of rf_stack: the base case returns [g];
\* any other length computes g_left and g_right over the two halves and
\* calls root_factor on each half.
RootFactorCall ==
    /\ rf_pc = "running"
    /\ rf_stack # <<>>
    /\ \E top \in {Head(rf_stack)} :
        IF Len(top.elems) = 1
        THEN /\ rf_out' = Append(rf_out, top.g)
             /\ rf_stack' = Tail(rf_stack)
             /\ rf_pc' = "running"
        ELSE \E n_prime \in {Len(top.elems) \div 2} :
             \E g_left \in {root_factor_fold(top.g, top.elems, 1, n_prime)} :
             \E g_right \in {root_factor_fold(top.g, top.elems, n_prime + 1,
                                              Len(top.elems))} :
               IF g_left = PANIC \/ g_right = PANIC
               THEN /\ rf_pc' = "panicked"
                    /\ UNCHANGED <<rf_stack, rf_out>>
               ELSE IF Len(rf_stack) + 1 > MaxDepth
               THEN /\ rf_pc' = "overflowed"
                    /\ UNCHANGED <<rf_stack, rf_out>>
               ELSE /\ rf_stack' =
                         <<[g |-> g_right,
                            elems |-> SubSeq(top.elems, 1, n_prime),
                            caller |-> Len(top.elems)],
                           [g |-> g_left,
                            elems |-> SubSeq(top.elems, n_prime + 1,
                                             Len(top.elems)),
                            caller |-> Len(top.elems)]>>
                         \o Tail(rf_stack)
                    /\ rf_pc' = "running"
                    /\ UNCHANGED rf_out
    /\ UNCHANGED <<build_vars, runtime_vars, htp_vars, call>>

\* The outermost call returns rf_out.
RootFactorReturn ==
    /\ rf_pc = "running"
    /\ rf_stack = <<>>
    /\ rf_pc' = "returned"
    /\ UNCHANGED <<build_vars, runtime_vars, htp_vars, call, rf_stack, rf_out>>

NextRoot ==
    \/ RootFactorStart
    \/ RootFactorCall
    \/ RootFactorReturn

SpecRoot == InitRoot /\ [][NextRoot]_vars

\* A call in progress is carried on.
SpecRootFair == SpecRoot /\ WF_vars(RootFactorCall) /\ WF_vars(RootFactorReturn)

\* The list of the outermost call.
RootInput == IF rf_pc = "idle" THEN <<>> ELSE call.args[2]

\* Every recursive call is on a list strictly shorter than its caller's.
CallsOnShorterLists ==
    \A i \in 1..Len(rf_stack) :
        rf_stack[i].caller # NoCaller =>
            Len(rf_stack[i].elems) < rf_stack[i].caller

\* C11 as stated: root_factor ends on every finite list, the empty one
\* included: every recursive call is on a strictly shorter list, the
\* stack is never exhausted, and the list returned has the length of the
\* input.
RootFactorTerminates ==
    /\ CallsOnShorterLists
    /\ rf_pc # "overflowed"
    /\ rf_pc = "returned" => Len(rf_out) = Len(RootInput)

\* The same for the lists of at least one element.
RootFactorTerminatesNonEmpty ==
    Len(RootInput) >= 1 =>
        /\ CallsOnShorterLists
        /\ rf_pc # "overflowed"
        /\ rf_pc = "returned" =>
            /\ Len(rf_out) = Len(RootInput)
            /\ rf_out = root_factor(call.args[1], RootInput)

\* A call on a list of at least one element returns.
RootFactorReturnsNonEmpty ==
    (rf_pc = "running" /\ Len(RootInput) >= 1) ~> (rf_pc = "returned")

(***************************************************************************)
(* addTransaction and the storage.                                         *)
(***************************************************************************)
\* The step was a call of addTransaction (no other call leaves this op).
AddTransactionStep == call'.op = "addTransaction"

\* What a call of addTransaction does to the storage: a call that fails
\* leaves State, SpentCoins and NewCoins as they were; one that succeeds
\* leaves State and NewCoins and appends one pair to SpentCoins, which
\* verifies against State.
AddTransactionEffect ==
    AddTransactionStep =>
        IF call'.ret = "Ok"
        THEN /\ State' = State
             /\ NewCoins' = NewCoins
             /\ Len(SpentCoins') = Len(SpentCoins) + 1
             /\ SubSeq(SpentCoins', 1, Len(SpentCoins)) = SpentCoins
             /\ \E pair \in {SpentCoins'[Len(SpentCoins')]} :
                 RefPowMod(pair[2] % MODULUS, pair[1], MODULUS) = State
        ELSE /\ State' = State
             /\ SpentCoins' = SpentCoins
             /\ NewCoins' = NewCoins

\* C12: an addTransaction that fails (queue full, equal owner keys, witness
\* that does not verify) changes none of State, SpentCoins and NewCoins;
\* one that succeeds leaves State and appends exactly one verified pair to
\* SpentCoins; SpentCoins never holds more than the cap.
RejectedAddTransactionChangesNothing ==
    /\ [][AddTransactionEffect]_vars
    /\ [](Len(SpentCoins) <= QueueCap)

\* An addTransaction turned down by a full queue.
QueueFullWitness ==
    /\ call.op = "addTransaction"
    /\ call.ret = "Transaction queue full. Please try again next block."
    /\ Len(SpentCoins) = QueueCap
    /\ State # GENERATOR

====
